---------------------------- MODULE Spec2Model ----------------------------
(***************************************************************************)
(* State-machine model of example/gatt_browser.c: the GATT browser of      *)
(* BTstack.  btstack_main parses the command line and powers the stack on; *)
(* afterwards the stack's run loop calls handle_hci_event and              *)
(* handle_gatt_client_event, one event at a time.  Each action below is    *)
(* the delivery of one event together with the whole handler run for it.   *)
(*                                                                         *)
(* The program's statics are modelled one to one.  The Bluetooth stack is  *)
(* not part of the example: it is modelled by the variables hci_state,     *)
(* scan_started, connect_pending, link, queries, reported and adv_reports, *)
(* which only decide which event the stack may deliver next.  The history  *)
(* variables event, issued, requests, delivered, overflowed, handles and   *)
(* exit_calls record what was delivered and what the handlers did.         *)
(***************************************************************************)
EXTENDS Integers, Sequences, FiniteSets, TLC

VARIABLES
    pc,                  \* "main", "usage", "crashed", "running", "exited"
    argv,                \* argv[1..argc-1] of btstack_main
    cmdline_addr,        \* static bd_addr_t cmdline_addr
    cmdline_addr_found,  \* static int cmdline_addr_found
    connection_handler,  \* static hci_con_handle_t connection_handler
    services,            \* static gatt_client_service_t services[40]
    service_count,       \* static int service_count
    service_index,       \* static int service_index
    search_services,     \* static int search_services
    hci_state,           \* stack: "off", "initializing", "working"
    scan_started,        \* stack: gap_start_scan has been called
    connect_pending,     \* stack: a gap_connect awaits its connection complete
    link,                \* stack: an LE connection exists
    queries,             \* stack: the GATT queries not yet completed, oldest first
    reported,            \* stack: services reported to the primary-service query
    adv_reports,         \* stack: advertising reports delivered so far
    event,               \* the event handled last
    issued,              \* the requests made while handling it
    requests,            \* every request made so far, in order
    delivered,           \* the services carried by the service results so far
    overflowed,          \* a service result was written past services[39]
    handles,             \* the handles of the connection-complete events
    exit_calls           \* the statuses exit() was called with

prog == <<pc, argv, cmdline_addr, cmdline_addr_found, connection_handler,
          services, service_count, service_index, search_services>>
stack == <<hci_state, scan_started, connect_pending, link, queries, reported,
           adv_reports>>
hist == <<event, issued, requests, delivered, overflowed, handles,
          exit_calls>>
vars == <<prog, stack, hist>>

---------------------------------------------------------------------------
\* Program constants.

\* gatt_client_service_t services[40]
Capacity == 40
\* gap_set_scan_parameters(0, 0x0030, 0x0030)
ScanType == 0
ScanInterval == 48
ScanWindow == 48
\* gap_connect(cmdline_addr, 0)
CmdlineAddrType == 0

\* Bounds of the model.
MaxArgs == 2        \* command-line tokens after the program name
MaxAdv == 2         \* advertising reports delivered in one run
MaxServices == 41   \* service results the peer delivers (one more than fits)
MaxFewServices == 2 \* service results of a peer with few services

\* Inputs.  A bd_addr_t is a number, 0 the all-zero address of the
\* initializer "{ }".  A service is identified by its start group handle,
\* 0 the zero-filled slot of the static array.
NoAddr == 0
NoService == 0
NoHandle == 0
Reports == {<<1, 0>>, <<2, 1>>}   \* <<address, address_type>>
ConHandles == {64, 65}
Characteristics == {1, 2}

Tokens == {"-a", "--address", "00:00:00:00:00:01", "junk"}
Argvs == UNION {[1..n -> Tokens] : n \in 0..MaxArgs}

Req(fn, args) == [fn |-> fn, args |-> args]
Ev(type, arg) == [type |-> type, arg |-> arg]

---------------------------------------------------------------------------
\* btstack_main

\* sscanf_bd_addr(str, addr): 1 and the address when str is six hex bytes
\* separated by colons, 0 otherwise.
sscanf_bd_addr(str) ==
    IF str = "00:00:00:00:00:01" THEN [ok |-> 1, addr |-> 1]
                                  ELSE [ok |-> 0, addr |-> NoAddr]

IsAddressOption(tok) == tok = "-a" \/ tok = "--address"

\* The while loop of btstack_main from position arg on, with argc =
\* Len(args) + 1.  The result is the set of outcomes: argv[argc] is NULL, and
\* handing it to sscanf_bd_addr either faults or fails to parse.
RECURSIVE ParseArgs(_, _, _, _)
ParseArgs(args, arg, found, addr) ==
    IF arg >= Len(args) + 1
    THEN {[end |-> "run", found |-> found, addr |-> addr]}
    ELSE IF IsAddressOption(args[arg])
         THEN IF arg + 1 >= Len(args) + 1
              THEN {[end |-> "crash", found |-> found, addr |-> addr]}
                   \cup ParseArgs(args, arg + 2, 0, addr)
              ELSE LET r == sscanf_bd_addr(args[arg + 1])
                   IN  ParseArgs(args, arg + 2, r.ok,
                                 IF r.ok = 1 THEN r.addr ELSE addr)
         ELSE {[end |-> "usage", found |-> found, addr |-> addr]}

\* btstack_main: parse, then gatt_client_setup and hci_power_control.
Main ==
    /\ pc = "main"
    /\ \E r \in ParseArgs(argv, 1, 0, cmdline_addr) :
          /\ cmdline_addr_found' = r.found
          /\ cmdline_addr' = r.addr
          /\ pc' = CASE r.end = "run"   -> "running"
                     [] r.end = "usage" -> "usage"
                     [] OTHER           -> "crashed"
          /\ hci_state' = IF r.end = "run" THEN "initializing" ELSE "off"
    /\ argv' = <<>>
    /\ event' = Ev("main", <<>>)
    /\ issued' = <<>>
    /\ UNCHANGED <<connection_handler, services, service_count, service_index,
                   search_services, scan_started, connect_pending, link,
                   queries, reported, adv_reports, requests, delivered,
                   overflowed, handles, exit_calls>>

---------------------------------------------------------------------------
\* What the stack does with the requests of one handler run.

IsQuery(r) == r.fn \in {"gatt_client_discover_primary_services",
                        "gatt_client_discover_characteristics_for_service"}

RECURSIVE QueriesOf(_)
QueriesOf(reqs) ==
    IF reqs = <<>> THEN <<>>
    ELSE (IF IsQuery(Head(reqs)) THEN <<Head(reqs).fn>> ELSE <<>>)
         \o QueriesOf(Tail(reqs))

Calls(reqs, fn) == {i \in 1..Len(reqs) : reqs[i].fn = fn}

\* The handler of event ev made the requests reqs while the queries q were
\* outstanding: the stack starts what was asked for.  It keeps one LE
\* connection, so an LE connection complete settles every pending connect.
Record(ev, reqs, q) ==
    /\ event' = ev
    /\ issued' = reqs
    /\ requests' = requests \o reqs
    /\ queries' = q \o QueriesOf(reqs)
    /\ scan_started' = (scan_started \/ Calls(reqs, "gap_start_scan") # {})
    /\ connect_pending' = ((connect_pending /\ ev.type # "le_meta")
                            \/ Calls(reqs, "gap_connect") # {})

---------------------------------------------------------------------------
\* handle_hci_event

\* Faulty variant: the state carried by the event is not looked at.
StateEventRequestsAnyState(state) ==
    IF cmdline_addr_found # 0
    THEN <<Req("gap_connect", <<cmdline_addr, CmdlineAddrType>>)>>
    ELSE <<Req("gap_set_scan_parameters",
               <<ScanType, ScanInterval, ScanWindow>>),
           Req("gap_start_scan", <<>>)>>

\* case BTSTACK_EVENT_STATE
StateEventRequests(state) ==
    IF state # "working" THEN <<>>
    ELSE IF cmdline_addr_found # 0
         THEN <<Req("gap_connect", <<cmdline_addr, CmdlineAddrType>>)>>
         ELSE <<Req("gap_set_scan_parameters",
                    <<ScanType, ScanInterval, ScanWindow>>),
                Req("gap_start_scan", <<>>)>>

\* case GAP_EVENT_ADVERTISING_REPORT
AdvertisingReportRequests(address, address_type) ==
    <<Req("gap_stop_scan", <<>>),
      Req("gap_connect", <<address, address_type>>)>>

\* case HCI_EVENT_LE_META
LeMetaHandle(subevent, handle) ==
    IF subevent # "connection_complete" THEN connection_handler ELSE handle

\* Faulty variant: the subevent is not looked at.
LeMetaRequestsAnySubevent(subevent, handle) ==
    <<Req("gatt_client_discover_primary_services",
          <<LeMetaHandle(subevent, handle)>>)>>

LeMetaRequests(subevent, handle) ==
    IF subevent # "connection_complete" THEN <<>>
    ELSE <<Req("gatt_client_discover_primary_services",
               <<LeMetaHandle(subevent, handle)>>)>>

\* Faulty variant: the disconnection is reported, the process goes on.
ExitsOnNothing(type) == FALSE

\* case HCI_EVENT_DISCONNECTION_COMPLETE: exit(0)
ExitsOn(type) == type = "disconnection_complete"

\* The stack reports its state while it starts up, "working" last.
BtstackEventState ==
    /\ pc = "running"
    /\ hci_state = "initializing"
    /\ \E state \in {"initializing", "working"} :
          /\ hci_state' = state
          /\ Record(Ev("state", <<state>>), StateEventRequests(state), queries)
    /\ UNCHANGED <<prog, link, reported, adv_reports, delivered, overflowed,
                   handles, exit_calls>>

\* Advertising reports arrive once scanning was started; reports already
\* queued still arrive after gap_stop_scan, until the connection is made.
AdvertisingReportHandled ==
    /\ \E r \in Reports :
          Record(Ev("advertising_report", r),
                 AdvertisingReportRequests(r[1], r[2]), queries)
    /\ adv_reports' = adv_reports + 1
    /\ UNCHANGED <<prog, hci_state, link, reported, delivered, overflowed,
                   handles, exit_calls>>

GapEventAdvertisingReport ==
    /\ pc = "running"
    /\ scan_started
    /\ ~link
    /\ adv_reports < MaxAdv
    /\ AdvertisingReportHandled

\* The stack keeps one LE connection: a pending connect completes once.
ConnectionCompleteHandled ==
    /\ \E handle \in ConHandles :
          /\ connection_handler' = LeMetaHandle("connection_complete", handle)
          /\ handles' = Append(handles, handle)
          /\ Record(Ev("le_meta", <<"connection_complete", handle>>),
                    LeMetaRequests("connection_complete", handle), queries)
    /\ link' = TRUE
    /\ UNCHANGED <<pc, argv, cmdline_addr, cmdline_addr_found, services,
                   service_count, service_index, search_services, hci_state,
                   reported, adv_reports, delivered, overflowed, exit_calls>>

LeConnectionComplete ==
    /\ pc = "running"
    /\ connect_pending
    /\ ~link
    /\ ConnectionCompleteHandled

\* Any other LE meta event, here the raw advertising report of a scan.
LeMetaOther ==
    /\ pc = "running"
    /\ scan_started
    /\ ~link
    /\ connection_handler' = LeMetaHandle("advertising_report", NoHandle)
    /\ event' = Ev("le_meta_other", <<"advertising_report", NoHandle>>)
    /\ issued' = LeMetaRequests("advertising_report", NoHandle)
    /\ requests' = requests \o issued'
    /\ queries' = queries \o QueriesOf(issued')
    /\ UNCHANGED <<pc, argv, cmdline_addr, cmdline_addr_found, services,
                   service_count, service_index, search_services, hci_state,
                   scan_started, connect_pending, link, reported, adv_reports,
                   delivered, overflowed, handles, exit_calls>>

\* The link goes down, after gap_disconnect or because the peer left.
HciDisconnectionComplete ==
    /\ pc = "running"
    /\ link
    /\ pc' = IF ExitsOn("disconnection_complete") THEN "exited" ELSE pc
    /\ exit_calls' = IF ExitsOn("disconnection_complete")
                     THEN Append(exit_calls, 0) ELSE exit_calls
    /\ link' = FALSE
    /\ Record(Ev("disconnection_complete", <<>>), <<>>, queries)
    /\ UNCHANGED <<argv, cmdline_addr, cmdline_addr_found, connection_handler,
                   services, service_count, service_index, search_services,
                   hci_state, reported, adv_reports, delivered, overflowed,
                   handles>>

---------------------------------------------------------------------------
\* handle_gatt_client_event

\* services[i] as the handler reads it.  Past the end of the array it reads
\* whatever lies there: what an earlier result wrote, or something else.
Slot(i) ==
    IF i < Capacity THEN {services[i]}
    ELSE {NoService} \cup (IF i + 1 <= Len(delivered) THEN {delivered[i + 1]}
                                                       ELSE {})

\* services[service_count++] = service.  The outcomes are records
\* [services, count, index, past]: a write to services[40] and beyond lands in
\* whatever follows the array, nothing the program reads or one of the two
\* counters defined after it.
StoreService(service) ==
    IF service_count < Capacity
    THEN {[services |-> [services EXCEPT ![service_count] = service],
           count |-> service_count + 1, index |-> service_index,
           past |-> FALSE]}
    ELSE {[services |-> services, count |-> c, index |-> service_index,
           past |-> TRUE] : c \in {service_count + 1, 0, service}}
         \cup
         {[services |-> services, count |-> service_count + 1, index |-> i,
           past |-> TRUE] : i \in {0, service}}

\* Faulty variant: the comparison is off by one.
MoreServicesOrEqual == service_index <= service_count

\* if (service_index < service_count)
MoreServices == service_index < service_count

\* case GATT_EVENT_QUERY_COMPLETE, if (search_services): the index after it
\* and the slot whose characteristics are asked for.
FirstIndex == 0
FirstSlot == FirstIndex

\* The else branch, a service left: services[service_index++].
NextSlot == service_index
NextIndex == service_index + 1

\* The else branch, no service left.
\* Faulty variant: gap_disconnect is not called.
DisconnectRequestsForgotten == <<>>

DisconnectRequests == <<Req("gap_disconnect", <<connection_handler>>)>>

\* Faulty variant: the query is sent again without waiting for completion.
CharacteristicsRequestsTwice(service) ==
    <<Req("gatt_client_discover_characteristics_for_service",
          <<connection_handler, service>>),
      Req("gatt_client_discover_characteristics_for_service",
          <<connection_handler, service>>)>>

CharacteristicsRequests(service) ==
    <<Req("gatt_client_discover_characteristics_for_service",
          <<connection_handler, service>>)>>

\* The peer reports its primary services in handle order: the next one of
\* its table, while the primary-service query is the one in progress.
GattEventServiceQueryResult ==
    /\ pc = "running"
    /\ link
    /\ queries # <<>>
    /\ Head(queries) = "gatt_client_discover_primary_services"
    /\ reported < MaxServices
    /\ LET service == reported + 1 IN
          /\ \E s \in StoreService(service) :
                /\ services' = s.services
                /\ service_count' = s.count
                /\ service_index' = s.index
                /\ overflowed' = (overflowed \/ s.past)
          /\ Record(Ev("service_query_result", <<service>>), <<>>, queries)
          /\ delivered' = Append(delivered, service)
    /\ reported' = reported + 1
    /\ UNCHANGED <<pc, argv, cmdline_addr, cmdline_addr_found,
                   connection_handler, search_services, hci_state, link,
                   adv_reports, handles, exit_calls>>

\* Faulty variant: the result is counted in service_index.
GattEventCharacteristicQueryResultCounted ==
    /\ pc = "running"
    /\ link
    /\ queries # <<>>
    /\ Head(queries) = "gatt_client_discover_characteristics_for_service"
    /\ \E c \in Characteristics :
          Record(Ev("characteristic_query_result", <<c>>), <<>>, queries)
    /\ service_index' = service_index + 1
    /\ UNCHANGED <<pc, argv, cmdline_addr, cmdline_addr_found,
                   connection_handler, services, service_count,
                   search_services, hci_state, link, reported, adv_reports,
                   delivered, overflowed, handles, exit_calls>>

GattEventCharacteristicQueryResult ==
    /\ pc = "running"
    /\ link
    /\ queries # <<>>
    /\ Head(queries) = "gatt_client_discover_characteristics_for_service"
    /\ \E c \in Characteristics :
          Record(Ev("characteristic_query_result", <<c>>), <<>>, queries)
    /\ UNCHANGED <<prog, hci_state, link, reported, adv_reports, delivered,
                   overflowed, handles, exit_calls>>

\* The stack completes the oldest outstanding query, once.
GattEventQueryComplete ==
    /\ pc = "running"
    /\ link
    /\ queries # <<>>
    /\ IF search_services # 0
       THEN /\ service_index' = FirstIndex
            /\ search_services' = 0
            /\ \E service \in Slot(FirstSlot) :
                  Record(Ev("query_complete", <<>>),
                         CharacteristicsRequests(service), Tail(queries))
       ELSE IF MoreServices
       THEN /\ service_index' = NextIndex
            /\ search_services' = search_services
            /\ \E service \in Slot(NextSlot) :
                  Record(Ev("query_complete", <<>>),
                         CharacteristicsRequests(service), Tail(queries))
       ELSE /\ service_index' = 0
            /\ search_services' = search_services
            /\ Record(Ev("query_complete", <<>>), DisconnectRequests,
                      Tail(queries))
    /\ UNCHANGED <<pc, argv, cmdline_addr, cmdline_addr_found,
                   connection_handler, services, service_count, hci_state,
                   link, reported, adv_reports, delivered, overflowed,
                   handles, exit_calls>>

---------------------------------------------------------------------------
Init ==
    /\ pc = "main"
    /\ argv \in Argvs
    /\ cmdline_addr = NoAddr
    /\ cmdline_addr_found = 0
    /\ connection_handler = NoHandle
    /\ services = [i \in 0..(Capacity - 1) |-> NoService]
    /\ service_count = 0
    /\ service_index = 0
    /\ search_services = 1
    /\ hci_state = "off"
    /\ scan_started = FALSE
    /\ connect_pending = FALSE
    /\ link = FALSE
    /\ queries = <<>>
    /\ reported = 0
    /\ adv_reports = 0
    /\ event = Ev("none", <<>>)
    /\ issued = <<>>
    /\ requests = <<>>
    /\ delivered = <<>>
    /\ overflowed = FALSE
    /\ handles = <<>>
    /\ exit_calls = <<>>

Next ==
    \/ Main
    \/ BtstackEventState
    \/ GapEventAdvertisingReport
    \/ LeConnectionComplete
    \/ LeMetaOther
    \/ HciDisconnectionComplete
    \/ GattEventServiceQueryResult
    \/ GattEventCharacteristicQueryResult
    \/ GattEventQueryComplete

Spec == Init /\ [][Next]_vars

---------------------------------------------------------------------------
\* A stack that answers every request.  Each gap_connect is answered by a
\* connection complete, also one made while a link exists, and an advertising
\* report still queued is delivered whatever the program does meanwhile.

RequestsMade(fn) == Cardinality(Calls(requests, fn))

LeConnectionCompleteAgain ==
    /\ pc = "running"
    /\ link
    /\ RequestsMade("gap_connect") > Len(handles)
    /\ ConnectionCompleteHandled

GapEventAdvertisingReportLate ==
    /\ pc = "running"
    /\ scan_started
    /\ link
    /\ adv_reports < MaxAdv
    /\ AdvertisingReportHandled

\* The peer of these runs has few services.
GattEventServiceQueryResultFew ==
    /\ reported < MaxFewServices
    /\ GattEventServiceQueryResult

NextFree ==
    \/ Main
    \/ BtstackEventState
    \/ GapEventAdvertisingReport
    \/ GapEventAdvertisingReportLate
    \/ LeConnectionComplete
    \/ LeConnectionCompleteAgain
    \/ LeMetaOther
    \/ HciDisconnectionComplete
    \/ GattEventServiceQueryResultFew
    \/ GattEventCharacteristicQueryResult
    \/ GattEventQueryComplete

SpecFree == Init /\ [][NextFree]_vars

---------------------------------------------------------------------------
\* A responsive stack with fair event delivery.  The link only goes down in
\* answer to gap_disconnect, and the stack's state report, the advertising
\* report of a scan, the connection complete of a connect, the query complete
\* of a query and the disconnection complete are each delivered eventually.

HciDisconnectionCompleteRequested ==
    /\ RequestsMade("gap_disconnect") > 0
    /\ HciDisconnectionComplete

NextLive ==
    \/ Main
    \/ BtstackEventState
    \/ GapEventAdvertisingReport
    \/ LeConnectionComplete
    \/ LeMetaOther
    \/ HciDisconnectionCompleteRequested
    \/ GattEventServiceQueryResult
    \/ GattEventCharacteristicQueryResult
    \/ GattEventQueryComplete

SpecLive ==
    /\ Init
    /\ [][NextLive]_vars
    /\ WF_vars(BtstackEventState)
    /\ WF_vars(GapEventAdvertisingReport)
    /\ WF_vars(LeConnectionComplete)
    /\ WF_vars(GattEventQueryComplete)
    /\ WF_vars(HciDisconnectionCompleteRequested)

---------------------------------------------------------------------------
\* Views of the history used by the properties.

RequestsOf(fn) == SelectSeq(requests, LAMBDA r : r.fn = fn)
IssuedOf(fn) == SelectSeq(issued, LAMBDA r : r.fn = fn)

Connects == RequestsOf("gap_connect")
Disconnects == RequestsOf("gap_disconnect")
PrimaryQueries == RequestsOf("gatt_client_discover_primary_services")
CharacteristicQueries ==
    RequestsOf("gatt_client_discover_characteristics_for_service")

\* The services the discover-characteristics requests were made for, in order.
CharTargets ==
    [k \in 1..Len(CharacteristicQueries) |-> CharacteristicQueries[k].args[2]]

IsPrefix(s, t) == Len(s) <= Len(t) /\ \A k \in 1..Len(s) : s[k] = t[k]

---------------------------------------------------------------------------
\* C1 (as claimed): however many advertising reports arrive before the
\* connection completes, one gap_connect is made in total, for the address
\* and address type of the first report; a later report causes no
\* gap_stop_scan and no gap_connect.
C1_OneConnectForFirstReport ==
    (cmdline_addr_found = 0 /\ adv_reports >= 1) =>
        /\ Len(Connects) = 1
        /\ (event.type = "advertising_report" /\ adv_reports = 1)
              => Connects[1].args = event.arg
        /\ (event.type = "advertising_report" /\ adv_reports > 1)
              => issued = <<>>

\* C2 (as claimed): for S <= 40 stored services the discover-characteristics
\* requests are made for the stored services in sequence order, each once,
\* and all S of them have been made when gap_disconnect is called.
C2_EachServiceQueriedOnceInOrder ==
    Len(delivered) <= Capacity =>
        /\ IsPrefix(CharTargets, delivered)
        /\ Disconnects # <<>> => CharTargets = delivered

\* C3 (as claimed): when primary-service discovery completes without any
\* service result, no discover-characteristics request is made and
\* gap_disconnect is called while that query complete is handled.
C3_NoServiceNoCharacteristicQuery ==
    (search_services = 0 /\ delivered = <<>>) =>
        /\ CharacteristicQueries = <<>>
        /\ Len(Disconnects) = 1

\* C4: at most one discovery query is outstanding in every reachable state; a
\* handler run makes at most one, only for a connection complete or a query
\* complete, and only when no other query is outstanding any more.
C4_OneOutstandingQuery ==
    /\ Len(queries) <= 1
    /\ Len(QueriesOf(issued)) <= 1
    /\ QueriesOf(issued) # <<>> =>
          /\ event.type \in {"le_meta", "query_complete"}
          /\ queries = QueriesOf(issued)

\* C4 witness: the query for a later service is outstanding, made while the
\* query complete of the one before it was handled.
C4_Witness ==
    /\ event.type = "query_complete"
    /\ Len(CharacteristicQueries) = 3
    /\ queries = <<"gatt_client_discover_characteristics_for_service">>

\* C5 (as claimed): gap_disconnect is called once; when it is called every
\* discovered service has had its characteristics queried, and it carries the
\* handle of the connection complete event.
C5_OneDisconnectAfterLastService ==
    /\ Len(Disconnects) <= 1
    /\ Disconnects # <<>> =>
          /\ \A k \in 1..Len(delivered) :
                \E j \in 1..Len(CharTargets) : CharTargets[j] = delivered[k]
          /\ handles # <<>>
          /\ Disconnects[1].args = <<handles[Len(handles)]>>

\* C6 (as claimed): a service result beyond the capacity of 40 is not written
\* past the end of the array, and the stored count never exceeds 40.
C6_CountWithinCapacity ==
    /\ ~overflowed
    /\ service_count <= Capacity

\* C7: handling an LE connection complete event makes exactly one
\* discover-primary-services request, with the handle of that event, and no
\* other event makes such a request.
C7_PrimaryQueryPerConnection ==
    /\ event.type = "le_meta" =>
          issued = <<Req("gatt_client_discover_primary_services",
                         <<event.arg[2]>>)>>
    /\ event.type # "le_meta" =>
          IssuedOf("gatt_client_discover_primary_services") = <<>>
    /\ Len(PrimaryQueries) = Len(handles)
    /\ \A k \in 1..Len(handles) : PrimaryQueries[k].args = <<handles[k]>>

\* C7 witness: a connection complete event has just been handled.
C7_Witness ==
    /\ event.type = "le_meta"
    /\ link
    /\ Len(PrimaryQueries) = 1

\* C8: once events are handled the process has exited, with status 0, exactly
\* when a disconnection complete event was handled; no other event ends it,
\* and exit is called at most once.
C8_ExitOnDisconnectionOnly ==
    /\ pc = "exited" <=> event.type = "disconnection_complete"
    /\ pc = "exited" <=> exit_calls = <<0>>
    /\ pc # "exited" => exit_calls = <<>>

\* C8 witness: the disconnection complete arrived while the characteristics
\* were being discovered, and the process has exited.
C8_Witness ==
    /\ pc = "exited"
    /\ Len(CharacteristicQueries) = 2
    /\ Disconnects = <<>>

\* C9: a state event with state working makes one gap_connect to the command
\* line address and starts no scan when an address was given, and otherwise
\* sets the scan parameters and starts the scan without connecting; any other
\* state event makes no request; without a command line address a connect is
\* only made for an advertising report.
C9_StackReady ==
    /\ (event.type = "state" /\ event.arg # <<"working">>) => issued = <<>>
    /\ (event.type = "state" /\ event.arg = <<"working">>) =>
          IF cmdline_addr_found # 0
          THEN /\ issued = <<Req("gap_connect", <<cmdline_addr, 0>>)>>
               /\ RequestsOf("gap_start_scan") = <<>>
          ELSE /\ issued = <<Req("gap_set_scan_parameters", <<0, 48, 48>>),
                             Req("gap_start_scan", <<>>)>>
               /\ Connects = <<>>
    /\ cmdline_addr_found = 0 => Len(Connects) = adv_reports
    /\ cmdline_addr_found # 0 =>
          (RequestsOf("gap_start_scan") = <<>> /\ Len(Connects) <= 1)

\* C9 witness: the stack became ready with an address from the command line.
C9_Witness ==
    /\ event.type = "state"
    /\ hci_state = "working"
    /\ cmdline_addr_found = 1
    /\ Connects = <<Req("gap_connect", <<1, 0>>)>>

\* C10: as long as no more services than fit were discovered, the service
\* index lies between 0 and the number of stored services.
C10_IndexWithinCount ==
    ~overflowed => (0 <= service_index /\ service_index <= service_count)

\* C10 witness: the index has reached the count of a full array.
C10_Witness ==
    /\ ~overflowed
    /\ service_count = Capacity
    /\ service_index = service_count

\* C11 (as claimed): the stored services only grow by appending, one slot at
\* a time and without touching the slots already filled, and neither the
\* slots nor the count change once service discovery has completed.
C11_ServicesAppendOnly ==
    [][/\ service_count' >= service_count
       /\ \A i \in 0..(Capacity - 1) :
             i < service_count => services'[i] = services[i]
       /\ service_count' # service_count => service_count' = service_count + 1
       /\ search_services = 0 =>
             (services' = services /\ service_count' = service_count)]_vars

\* C12: the phases only move forward: once the characteristics are being
\* discovered (search_services = 0) the flag stays 0 and no primary-service
\* query is made any more, and once gap_disconnect was called no
\* discover-characteristics request is made any more.
C12_PhasesMoveForward ==
    [][/\ search_services = 0 =>
             (search_services' = 0 /\ PrimaryQueries' = PrimaryQueries)
       /\ Disconnects # <<>> =>
             /\ CharacteristicQueries' = CharacteristicQueries
             /\ PrimaryQueries' = PrimaryQueries
             /\ search_services' = 0]_vars

\* C12 witness: the disconnect was requested after the characteristics of
\* several services were discovered, and the process still runs.
C12_Witness ==
    /\ pc = "running"
    /\ Disconnects # <<>>
    /\ Len(delivered) = 2
    /\ Len(CharacteristicQueries) = 3

\* An argument list is malformed when it holds a token that is no option, an
\* address option without a value, or one whose value is no address.
IsAddressText(tok) == tok = "00:00:00:00:00:01"

RECURSIVE Malformed(_)
Malformed(args) ==
    IF args = <<>> THEN FALSE
    ELSE IF ~IsAddressOption(args[1]) THEN TRUE
    ELSE \/ Len(args) = 1
         \/ ~IsAddressText(args[2])
         \/ Malformed(SubSeq(args, 3, Len(args)))

\* C13 (as claimed): for every malformed or incomplete argument list
\* btstack_main prints the usage and returns without setting up the GATT
\* client or powering the stack on.
C13_MalformedArgsPrintUsage ==
    [][(pc = "main" /\ Malformed(argv)) =>
          (pc' = "usage" /\ hci_state' = "off")]_vars

\* C14 (as the source documents it): one discover-characteristics request is
\* made in a run, for the service received last, and gap_disconnect is only
\* called after it.
C14_OnlyLastServiceQueried ==
    /\ Len(CharacteristicQueries) <= 1
    /\ (CharacteristicQueries # <<>> /\ delivered # <<>>) =>
          CharTargets[1] = delivered[Len(delivered)]
    /\ Disconnects # <<>> => Len(CharacteristicQueries) = 1

\* C15 (as claimed): after any connection complete event, also one that is
\* not the first of the run, the session is fresh: no service stored, index
\* 0, service discovery in progress.
C15_SessionResetOnConnection ==
    event.type = "le_meta" =>
        /\ service_count = 0
        /\ service_index = 0
        /\ search_services = 1

\* C20 (as claimed): once gap_disconnect was called no further request of any
\* kind is made, whatever events are delivered before the process ends.
C20_NoRequestAfterDisconnect ==
    [][Disconnects # <<>> => requests' = requests]_vars

\* C16: handling a characteristic query result leaves the stored services,
\* the count, the index, the phase flag and the connection handle as they
\* were and makes no request.
C16_CharacteristicResultChangesNothing ==
    [][event'.type = "characteristic_query_result" =>
          /\ UNCHANGED <<services, service_count, service_index,
                         search_services, connection_handler>>
          /\ issued' = <<>>
          /\ requests' = requests]_vars

\* C16 witness: a characteristic result was handled in the middle of the
\* discovery of the second of two services.
C16_Witness ==
    /\ event.type = "characteristic_query_result"
    /\ service_count = 2
    /\ service_index = 2

\* C18: under the responsive stack with fair delivery every run that handles
\* events ends in exit, for every number of discovered services up to the
\* capacity of the array.
C18_RunTerminates ==
    (pc = "running") ~> (pc = "exited" \/ overflowed)

\* C18 witness: the process exited after the disconnect that followed the
\* discovery of a full array of services.
C18_Witness ==
    /\ pc = "exited"
    /\ ~overflowed
    /\ Len(delivered) = Capacity
    /\ Len(Disconnects) = 1

\* C19 (as claimed): every discover-characteristics request is made for a
\* filled slot of the array, that is for a service that an earlier service
\* result reported.
C19_QueriesTargetReportedServices ==
    \A k \in 1..Len(CharTargets) :
        \E j \in 1..Len(delivered) : delivered[j] = CharTargets[k]

=============================================================================
